---- MODULE Spec2Model ----
(***************************************************************************)
(* State-machine model of exporter/app_exporter.py: one run of main() is   *)
(* select old files -> (dry run: exit) -> stage into the working directory *)
(* -> upload_to_sharepoint -> delete_files, and the scheduler may invoke   *)
(* the program again on the file system the previous run left behind.      *)
(*                                                                         *)
(* A path is a sequence of components (pathlib.PurePath.parts); the file   *)
(* system is a function from the paths of the existing regular files to    *)
(* [mtime, content] together with the set of existing directories.         *)
(***************************************************************************)
EXTENDS Integers, Sequences, FiniteSets, TLC

\* ------------------------------------------------------------------ bounds
MaxFiles == 2       \* regular files under the input directory at first start
MaxRuns == 2        \* invocations of the program by the scheduler

\* --------------------------------------------------------- run parameters
InputDir == <<"in">>            \* args.input_dir
WorkingDir == <<"work">>        \* args.working_dir
Library == "Docs"               \* args.sharepoint_library

\* Relative paths a file of the input tree may have: two files in the top
\* directory and one in a sub-directory that shares a base name.
RelPaths == { <<"a.txt">>, <<"b.txt">>, <<"sub", "a.txt">> }

\* Relative paths of the input tree in the successive-invocation
\* specification: one base name in two directories.
RunsRelPaths == { <<"a.txt">>, <<"sub", "a.txt">> }

\* Modification times in the successive-invocation specification: the oldest
\* and the youngest instant of MTimes.
RunsMTimes == { 1696118399, 1696204800 }

\* Instants (seconds since the epoch, UTC):
\*   1696118399 = 2023-09-30 23:59:59     1696118400 = 2023-10-01 00:00:00
\*   1696204800 = 2023-10-02 00:00:00
MTimes == { 1696118399, 1696118400, 1696204800 }

\* time.time() at start-up: 2023-10-31 00:00:00 and one day later.
StartTimes == { 1698710400, 1698796800 }

\* --days
DaysArgs == { 29, 30 }

\* HTTP status codes the remote service answers a POST with.
Statuses == { 199, 200, 299, 300 }

\* HTTP status codes the probe GET may answer with.
ProbeStatuses == { 200, 403, 500 }

None == "None"
Secret == "secret"

\* ---------------------------------------------------------- time utilities
\* days_to_seconds(days): float(days) * 60 * 60 * 24
days_to_seconds(days) == days * 60 * 60 * 24

\* Proleptic Gregorian date of a day number counted from 1970-01-01, as
\* datetime.utcfromtimestamp computes it (era / day-of-era decomposition).
CivilFromDays(d) ==
    LET z == d + 719468
        era == z \div 146097
        doe == z - era * 146097
        yoe == (doe - doe \div 1460 + doe \div 36524 - doe \div 146096) \div 365
        doy == doe - (365 * yoe + yoe \div 4 - yoe \div 100)
        mp == (5 * doy + 2) \div 153
        m == IF mp < 10 THEN mp + 3 ELSE mp - 9
        y == yoe + era * 400 + (IF m <= 2 THEN 1 ELSE 0)
    IN  [year |-> y, month |-> m]

Digit(n) == <<"0", "1", "2", "3", "4", "5", "6", "7", "8", "9">>[n + 1]

\* strftime %Y for a four-digit year and %m (zero padded), joined by "-".
YearMonthString(y, m) ==
    Digit(y \div 1000) \o Digit((y \div 100) % 10) \o Digit((y \div 10) % 10)
        \o Digit(y % 10) \o "-" \o Digit(m \div 10) \o Digit(m % 10)

\* timestamp_to_string(timestamp, YEAR_MONTH_FORMAT)
timestamp_to_string(timestamp) ==
    LET c == CivilFromDays(timestamp \div (60 * 60 * 24))
    IN  YearMonthString(c.year, c.month)

\* ---------------------------------------------------------- path utilities
IsPrefix(p, q) == Len(p) <= Len(q) /\ SubSeq(q, 1, Len(p)) = p

\* PurePath.name and PurePath.parent
Name(p) == p[Len(p)]
Parent(p) == SubSeq(p, 1, Len(p) - 1)

\* PurePath.relative_to(base)
relative_to(p, base) == SubSeq(p, Len(base) + 1, Len(p))

\* Every ancestor directory of d down from the root, d included
\* (os.makedirs / Path.mkdir(parents=True)).
WithParents(d) == { SubSeq(d, 1, n) : n \in 1..Len(d) }

\* ------------------------------------------------------------------- state
VARIABLES
    pc,                       \* position of the run inside main()
    run,                      \* number of the current invocation
    args,                     \* parse_args(): [days, delete, dry_run]
    fs,                       \* regular files: path -> [mtime, content]
    dirs,                     \* existing directories
    fs0, dirs0,               \* the file system as the current run found it
    start_timestamp,          \* main: time.time() at start-up
    oldfile_names,            \* main: result of filter_old_files
    moved,                    \* move_files: files of the loop already moved
    selected_filenames,       \* main: find_files(args.working_dir)
    password,                 \* upload_to_sharepoint: keyring.get_password
    keyring_calls,            \* credential lookups made by the current run
    idx,                      \* upload_to_sharepoint: position of the for loop
    successful_upload_count,
    failed_upload_count,
    created_folders,
    uploaded_filenames,
    deleted,                  \* delete_files: files of the loop already unlinked
    requests,                 \* network requests issued by the current run
    remote,                   \* remote library: <<folder, name>> -> content
    exit_status               \* process exit status, -1 while running

vars == << pc, run, args, fs, dirs, fs0, dirs0, start_timestamp, oldfile_names,
           moved, selected_filenames, password, keyring_calls, idx,
           successful_upload_count, failed_upload_count, created_folders,
           uploaded_filenames, deleted, requests, remote, exit_status >>

engine_locals == << idx, successful_upload_count, failed_upload_count,
                    created_folders, uploaded_filenames >>

\* ------------------------------------------------------------- file system
EmptyFs == [p \in {} |-> 0]

\* Regular files of f below directory dir_name.
FilesUnder(f, dir_name) ==
    { p \in DOMAIN f : IsPrefix(dir_name, p) /\ Len(p) > Len(dir_name) }

\* Orders in which os.walk (top-down) may list a set of files: the files of
\* one directory are listed together and before those of its sub-directories;
\* the order inside a directory is the directory listing's.
WalkOrders(S) ==
    { s \in [1..Cardinality(S) -> S] :
        /\ \A k, l \in DOMAIN s : k # l => s[k] # s[l]
        /\ \A k, l \in DOMAIN s :
              k < l => ~ ( /\ IsPrefix(Parent(s[l]), Parent(s[k]))
                           /\ Parent(s[l]) # Parent(s[k]) )
        /\ \A k, l, n \in DOMAIN s :
              (k < n /\ n < l /\ Parent(s[k]) = Parent(s[l]))
                  => Parent(s[n]) = Parent(s[k]) }

\* find_files(dir_name): the lists the walk may return.
find_files(f, dir_name) == WalkOrders(FilesUnder(f, dir_name))

\* modification_date(path_to_file)
modification_date(f, path_to_file) == f[path_to_file].mtime

\* Variant of filter_old_files that also keeps a file modified exactly at the
\* cutoff (<= written for <).
filter_old_files_inclusive(f, filenames, maximum_timestamp) ==
    SelectSeq(filenames,
              LAMBDA filename : modification_date(f, filename) <= maximum_timestamp)

\* filter_old_files(filenames, maximum_timestamp)
filter_old_files(f, filenames, maximum_timestamp) ==
    SelectSeq(filenames,
              LAMBDA filename : modification_date(f, filename) < maximum_timestamp)

\* main: maximum_timestamp = start_timestamp - days_to_seconds(args.days)
maximum_timestamp(start, days) == start - days_to_seconds(days)

\* Variant of target_filename that drops the relative directory and moves
\* every file straight into target_dir.
target_filename_flat(filename, base_dir, target_dir) ==
    target_dir \o << Name(filename) >>

\* move_files: target_filename of one file
target_filename(filename, base_dir, target_dir) ==
    (target_dir \o relative_to(Parent(filename), base_dir)) \o << Name(filename) >>

\* Variant of MoveInFs that copies the file and leaves the source in place.
MoveInFs_copy(f, src, dst) ==
    [ p \in DOMAIN f \cup {dst} |-> IF p = dst THEN f[src] ELSE f[p] ]

\* shutil.move(src, dst) of a regular file onto a file path (rename, which
\* replaces an existing file at dst).
MoveInFs(f, src, dst) ==
    [ p \in (DOMAIN f \ {src}) \cup {dst} |-> IF p = dst THEN f[src] ELSE f[p] ]

\* pathlib.Path(filename).unlink()
UnlinkInFs(f, filename) == [ p \in DOMAIN f \ {filename} |-> f[p] ]

\* File systems the first run may find: at most MaxFiles files under the
\* input directory, no working directory yet.
InitialFileSystems ==
    UNION { [ { InputDir \o r : r \in R } -> MTimes ] :
              R \in { Q \in SUBSET RelPaths : Cardinality(Q) <= MaxFiles } }

\* ---------------------------------------------------------------- requests
Request(op, target, file, status) ==
    [op |-> op, target |-> target, file |-> file, status |-> status]

\* upload_to_sharepoint: folder_name and relative_target of one file
folder_name(f, filename) == timestamp_to_string(modification_date(f, filename))
relative_target(f, filename) == (Library \o "/") \o folder_name(f, filename)

\* Variant of create_folder_failed that takes only 4xx and 5xx for failures.
create_folder_failed_only_errors(status_code) == status_code >= 400

\* Variant of create_folder_failed without the lower bound of the range.
create_folder_failed_no_lower(status_code) == status_code >= 300

\* upload_to_sharepoint: status test after the create-folder POST
create_folder_failed(status_code) == status_code < 200 \/ status_code >= 300

\* Variant of upload_failed with the upper bound off by one (> for >=).
upload_failed_off_by_one(status_code) == status_code < 200 \/ status_code > 300

\* upload_to_sharepoint: status test after the upload POST
upload_failed(status_code) == status_code < 200 \/ status_code >= 300

\* Variant of probe_forbidden that tests for 401 instead of 403.
probe_forbidden_401(status_code) == status_code = 401

\* upload_to_sharepoint: status test after the probe GET
probe_forbidden(status_code) == status_code = 403

\* Variant of password_missing that never reports a missing password (the
\* check is absent).
password_missing_unchecked(pw) == FALSE

\* upload_to_sharepoint: if password is None
password_missing(pw) == pw = None

\* Variant of add_created_folder that assigns the set instead of adding to it.
add_created_folder_replaces(created, target) == {target}

\* Variant of add_created_folder that forgets the folder (no caching).
add_created_folder_forgets(created, target) == created

\* upload_to_sharepoint: created_folders.add(relative_target)
add_created_folder(created, target) == created \cup {target}

\* Variant of count_folder_failure that skips the file without counting it.
count_folder_failure_skipped(failed) == failed

\* upload_to_sharepoint: failed_upload_count += 1 before continue
count_folder_failure(failed) == failed + 1

\* ------------------------------------------------------------------- Init
Init ==
    /\ pc = "init"
    /\ run = 1
    /\ args = [days |-> 0, delete |-> TRUE, dry_run |-> FALSE]
    /\ \E m \in InitialFileSystems :
          /\ fs = [ p \in DOMAIN m |-> [mtime |-> m[p], content |-> p] ]
          /\ dirs = {InputDir} \cup UNION { WithParents(Parent(p)) : p \in DOMAIN m }
    /\ fs0 = fs
    /\ dirs0 = dirs
    /\ start_timestamp = 0
    /\ oldfile_names = << >>
    /\ moved = 0
    /\ selected_filenames = << >>
    /\ password = None
    /\ keyring_calls = 0
    /\ idx = 0
    /\ successful_upload_count = 0
    /\ failed_upload_count = 0
    /\ created_folders = {}
    /\ uploaded_filenames = << >>
    /\ deleted = 0
    /\ requests = << >>
    /\ remote = EmptyFs
    /\ exit_status = -1

\* ------------------------------------------------------------------- main
\* main, start-up to the age filter: read the clock, parse the arguments,
\* list the input directory and keep the old files.
Start ==
    /\ pc = "init"
    /\ \E t \in StartTimes, d \in DaysArgs, del \in BOOLEAN, dry \in BOOLEAN :
          /\ t >= start_timestamp
          /\ start_timestamp' = t
          /\ args' = [days |-> d, delete |-> del, dry_run |-> dry]
          /\ \E filenames \in find_files(fs, InputDir) :
                oldfile_names' =
                    filter_old_files(fs, filenames, maximum_timestamp(t, d))
    /\ fs0' = fs
    /\ dirs0' = dirs
    /\ pc' = "filtered"
    /\ UNCHANGED << run, fs, dirs, moved, selected_filenames, password,
                    keyring_calls, engine_locals, deleted, requests, remote,
                    exit_status >>

\* Variant of DryRunExit with os.makedirs hoisted above the dry-run test.
DryRunExit_after_makedirs ==
    /\ pc = "filtered"
    /\ args.dry_run
    /\ dirs' = dirs \cup WithParents(WorkingDir)
    /\ pc' = "exit"
    /\ exit_status' = 0
    /\ UNCHANGED << run, args, fs, fs0, dirs0, start_timestamp,
                    oldfile_names, moved, selected_filenames, password,
                    keyring_calls, engine_locals, deleted, requests, remote >>

\* main: if args.dry_run: ... sys.exit(0)
DryRunExit ==
    /\ pc = "filtered"
    /\ args.dry_run
    /\ pc' = "exit"
    /\ exit_status' = 0
    /\ UNCHANGED << run, args, fs, dirs, fs0, dirs0, start_timestamp,
                    oldfile_names, moved, selected_filenames, password,
                    keyring_calls, engine_locals, deleted, requests, remote >>

\* main: os.makedirs(args.working_dir, exist_ok=True), then enter move_files
MakeWorkingDir ==
    /\ pc = "filtered"
    /\ ~ args.dry_run
    /\ dirs' = dirs \cup WithParents(WorkingDir)
    /\ moved' = 0
    /\ pc' = "moving"
    /\ UNCHANGED << run, args, fs, fs0, dirs0, start_timestamp, oldfile_names,
                    selected_filenames, password, keyring_calls, engine_locals,
                    deleted, requests, remote, exit_status >>

\* move_files: one iteration of the loop
MoveFile ==
    /\ pc = "moving"
    /\ moved < Len(oldfile_names)
    /\ LET filename == oldfile_names[moved + 1]
           file_target_directory ==
               WorkingDir \o relative_to(Parent(filename), InputDir)
       IN  /\ dirs' = dirs \cup WithParents(file_target_directory)
           /\ fs' = MoveInFs(fs, filename,
                             target_filename(filename, InputDir, WorkingDir))
    /\ moved' = moved + 1
    /\ UNCHANGED << pc, run, args, fs0, dirs0, start_timestamp, oldfile_names,
                    selected_filenames, password, keyring_calls, engine_locals,
                    deleted, requests, remote, exit_status >>

\* Variant of FindWorkingFiles that hands the engine only the files this run
\* has staged instead of listing the working directory.
FindWorkingFiles_only_staged ==
    /\ pc = "moving"
    /\ moved = Len(oldfile_names)
    /\ selected_filenames' =
          [ k \in DOMAIN oldfile_names |->
              target_filename(oldfile_names[k], InputDir, WorkingDir) ]
    /\ pc' = "keyring"
    /\ UNCHANGED << run, args, fs, dirs, fs0, dirs0, start_timestamp,
                    oldfile_names, moved, password, keyring_calls,
                    engine_locals, deleted, requests, remote, exit_status >>

\* main: move_files has returned; selected_filenames = find_files(working_dir)
\* and upload_to_sharepoint is called.
FindWorkingFiles ==
    /\ pc = "moving"
    /\ moved = Len(oldfile_names)
    /\ selected_filenames' \in find_files(fs, WorkingDir)
    /\ pc' = "keyring"
    /\ UNCHANGED << run, args, fs, dirs, fs0, dirs0, start_timestamp,
                    oldfile_names, moved, password, keyring_calls,
                    engine_locals, deleted, requests, remote, exit_status >>

\* ---------------------------------------------------- upload_to_sharepoint
\* keyring.get_password(host, user); None raises ValueError, which ends the
\* process with a traceback (exit status 1).
GetPassword ==
    /\ pc = "keyring"
    /\ keyring_calls' = keyring_calls + 1
    /\ \E pw \in {None, Secret} :
          /\ password' = pw
          /\ IF password_missing(pw)
               THEN pc' = "aborted" /\ exit_status' = 1
               ELSE pc' = "connect" /\ UNCHANGED exit_status
    /\ UNCHANGED << run, args, fs, dirs, fs0, dirs0, start_timestamp,
                    oldfile_names, moved, selected_filenames, engine_locals,
                    deleted, requests, remote >>

\* s = sharepy.connect(host, username, password)
Connect ==
    /\ pc = "connect"
    /\ requests' = Append(requests, Request("connect", "", << >>, 0))
    /\ pc' = "probe"
    /\ UNCHANGED << run, args, fs, dirs, fs0, dirs0, start_timestamp,
                    oldfile_names, moved, selected_filenames, password,
                    keyring_calls, engine_locals, deleted, remote, exit_status >>

\* s.get(host).status_code == 403 raises ValueError; otherwise the counters,
\* created_folders and uploaded_filenames are initialised and the loop starts.
Probe ==
    /\ pc = "probe"
    /\ \E status_code \in ProbeStatuses :
          /\ requests' = Append(requests, Request("get", "", << >>, status_code))
          /\ IF probe_forbidden(status_code)
               THEN /\ pc' = "aborted"
                    /\ exit_status' = 1
                    /\ UNCHANGED engine_locals
               ELSE /\ pc' = "loop"
                    /\ idx' = 1
                    /\ successful_upload_count' = 0
                    /\ failed_upload_count' = 0
                    /\ created_folders' = {}
                    /\ uploaded_filenames' = << >>
                    /\ UNCHANGED exit_status
    /\ UNCHANGED << run, args, fs, dirs, fs0, dirs0, start_timestamp,
                    oldfile_names, moved, selected_filenames, password,
                    keyring_calls, deleted, remote >>

\* Loop body up to the upload POST: read the file, compute relative_target
\* and, unless it is in created_folders, POST the create-folder request.
EnsureFolder ==
    /\ pc = "loop"
    /\ idx <= Len(selected_filenames)
    /\ LET filename == selected_filenames[idx]
           target == relative_target(fs, filename)
       IN  IF target \in created_folders
             THEN /\ pc' = "upload"
                  /\ UNCHANGED << requests, engine_locals >>
             ELSE \E status_code \in Statuses :
                    /\ requests' = Append(requests,
                          Request("create_folder", target, filename, status_code))
                    /\ IF create_folder_failed(status_code)
                         THEN /\ failed_upload_count' =
                                    count_folder_failure(failed_upload_count)
                              /\ idx' = idx + 1
                              /\ pc' = "loop"
                              /\ UNCHANGED created_folders
                         ELSE /\ created_folders' =
                                    add_created_folder(created_folders, target)
                              /\ pc' = "upload"
                              /\ UNCHANGED << failed_upload_count, idx >>
                    /\ UNCHANGED << successful_upload_count, uploaded_filenames >>
    /\ UNCHANGED << run, args, fs, dirs, fs0, dirs0, start_timestamp,
                    oldfile_names, moved, selected_filenames, password,
                    keyring_calls, deleted, remote, exit_status >>

\* Variant of UploadFile that unlinks the file as soon as its upload has
\* succeeded, inside the loop.
UploadFile_deletes_at_once ==
    /\ pc = "upload"
    /\ LET filename == selected_filenames[idx]
           content == fs[filename].content
           target == relative_target(fs, filename)
       IN  \E status_code \in Statuses :
             /\ requests' = Append(requests,
                    Request("upload", target, filename, status_code))
             /\ IF upload_failed(status_code)
                  THEN /\ failed_upload_count' = failed_upload_count + 1
                       /\ UNCHANGED << successful_upload_count,
                                       uploaded_filenames, remote, fs >>
                  ELSE /\ successful_upload_count' = successful_upload_count + 1
                       /\ uploaded_filenames' = uploaded_filenames
                       /\ fs' = IF args.delete THEN UnlinkInFs(fs, filename) ELSE fs
                       /\ remote' =
                            [ k \in DOMAIN remote \cup { << target, Name(filename) >> } |->
                                IF k = << target, Name(filename) >>
                                  THEN content ELSE remote[k] ]
                       /\ UNCHANGED failed_upload_count
    /\ idx' = idx + 1
    /\ pc' = "loop"
    /\ UNCHANGED << run, args, dirs, fs0, dirs0, start_timestamp,
                    oldfile_names, moved, selected_filenames, password,
                    keyring_calls, created_folders, deleted, exit_status >>

\* Loop body from the upload POST (Files/add(url=name, overwrite=true)) on.
UploadFile ==
    /\ pc = "upload"
    /\ LET filename == selected_filenames[idx]
           content == fs[filename].content
           target == relative_target(fs, filename)
       IN  \E status_code \in Statuses :
             /\ requests' = Append(requests,
                    Request("upload", target, filename, status_code))
             /\ IF upload_failed(status_code)
                  THEN /\ failed_upload_count' = failed_upload_count + 1
                       /\ UNCHANGED << successful_upload_count,
                                       uploaded_filenames, remote >>
                  ELSE /\ successful_upload_count' = successful_upload_count + 1
                       /\ uploaded_filenames' = Append(uploaded_filenames, filename)
                       /\ remote' =
                            [ k \in DOMAIN remote \cup { << target, Name(filename) >> } |->
                                IF k = << target, Name(filename) >>
                                  THEN content ELSE remote[k] ]
                       /\ UNCHANGED failed_upload_count
    /\ idx' = idx + 1
    /\ pc' = "loop"
    /\ UNCHANGED << run, args, fs, dirs, fs0, dirs0, start_timestamp,
                    oldfile_names, moved, selected_filenames, password,
                    keyring_calls, created_folders, deleted, exit_status >>

\* Variant of EngineReturn with the return statement indented into the loop:
\* the function returns after the first iteration.
EngineReturn_inside_loop ==
    /\ pc = "loop"
    /\ idx > 1
    /\ pc' = "cleanup"
    /\ UNCHANGED << run, args, fs, dirs, fs0, dirs0, start_timestamp,
                    oldfile_names, moved, selected_filenames, password,
                    keyring_calls, engine_locals, deleted, requests, remote,
                    exit_status >>

\* The loop is exhausted: log the counts, return uploaded_filenames.
EngineReturn ==
    /\ pc = "loop"
    /\ idx > Len(selected_filenames)
    /\ pc' = "cleanup"
    /\ UNCHANGED << run, args, fs, dirs, fs0, dirs0, start_timestamp,
                    oldfile_names, moved, selected_filenames, password,
                    keyring_calls, engine_locals, deleted, requests, remote,
                    exit_status >>

\* ---------------------------------------------------------------- cleanup
\* main: if args.delete: delete_files(uploaded_filenames) else: log
CleanupChoice ==
    /\ pc = "cleanup"
    /\ deleted' = 0
    /\ pc' = IF args.delete THEN "deleting" ELSE "finishing"
    /\ UNCHANGED << run, args, fs, dirs, fs0, dirs0, start_timestamp,
                    oldfile_names, moved, selected_filenames, password,
                    keyring_calls, engine_locals, requests, remote, exit_status >>

\* Variant of DeleteFile that walks the working set instead of the uploaded
\* list.
DeleteFile_from_working_set ==
    /\ pc = "deleting"
    /\ deleted < Len(uploaded_filenames)
    /\ fs' = UnlinkInFs(fs, selected_filenames[deleted + 1])
    /\ deleted' = deleted + 1
    /\ UNCHANGED << pc, run, args, dirs, fs0, dirs0, start_timestamp,
                    oldfile_names, moved, selected_filenames, password,
                    keyring_calls, engine_locals, requests, remote, exit_status >>

\* delete_files: one iteration of the loop
DeleteFile ==
    /\ pc = "deleting"
    /\ deleted < Len(uploaded_filenames)
    /\ fs' = UnlinkInFs(fs, uploaded_filenames[deleted + 1])
    /\ deleted' = deleted + 1
    /\ UNCHANGED << pc, run, args, dirs, fs0, dirs0, start_timestamp,
                    oldfile_names, moved, selected_filenames, password,
                    keyring_calls, engine_locals, requests, remote, exit_status >>

\* delete_files has returned
DeleteReturn ==
    /\ pc = "deleting"
    /\ deleted = Len(uploaded_filenames)
    /\ pc' = "finishing"
    /\ UNCHANGED << run, args, fs, dirs, fs0, dirs0, start_timestamp,
                    oldfile_names, moved, selected_filenames, password,
                    keyring_calls, engine_locals, deleted, requests, remote,
                    exit_status >>

\* Variant of AllDone that reports failed uploads through the exit status.
AllDone_failures_in_status ==
    /\ pc = "finishing"
    /\ pc' = "done"
    /\ exit_status' = IF failed_upload_count > 0 THEN 2 ELSE 0
    /\ UNCHANGED << run, args, fs, dirs, fs0, dirs0, start_timestamp,
                    oldfile_names, moved, selected_filenames, password,
                    keyring_calls, engine_locals, deleted, requests, remote >>

\* main: "All done", the process ends normally
AllDone ==
    /\ pc = "finishing"
    /\ pc' = "done"
    /\ exit_status' = 0
    /\ UNCHANGED << run, args, fs, dirs, fs0, dirs0, start_timestamp,
                    oldfile_names, moved, selected_filenames, password,
                    keyring_calls, engine_locals, deleted, requests, remote >>

\* The scheduler invokes the program again: a new process, on the file
\* system and the remote library the previous run left behind.
NextRun ==
    /\ pc \in {"done", "aborted", "exit"}
    /\ run < MaxRuns
    /\ run' = run + 1
    /\ pc' = "init"
    /\ args' = [days |-> 0, delete |-> TRUE, dry_run |-> FALSE]
    /\ fs0' = fs
    /\ dirs0' = dirs
    /\ oldfile_names' = << >>
    /\ moved' = 0
    /\ selected_filenames' = << >>
    /\ password' = None
    /\ keyring_calls' = 0
    /\ idx' = 0
    /\ successful_upload_count' = 0
    /\ failed_upload_count' = 0
    /\ created_folders' = {}
    /\ uploaded_filenames' = << >>
    /\ deleted' = 0
    /\ requests' = << >>
    /\ exit_status' = -1
    /\ UNCHANGED << fs, dirs, start_timestamp, remote >>

Next ==
    \/ Start
    \/ DryRunExit
    \/ MakeWorkingDir
    \/ MoveFile
    \/ FindWorkingFiles
    \/ GetPassword
    \/ Connect
    \/ Probe
    \/ EnsureFolder
    \/ UploadFile
    \/ EngineReturn
    \/ CleanupChoice
    \/ DeleteFile
    \/ DeleteReturn
    \/ AllDone

\* One invocation of the program.
Spec == Init /\ [][Next]_vars

\* One invocation of the program that always takes its next step: the
\* program is sequential and every call in it returns.
SpecFair == Spec /\ WF_vars(Next)

\* Between two invocations another program writes a new file into the input
\* tree, under the name of a file that an earlier run has moved away and left
\* in the working directory.
FileArrives ==
    /\ pc \in {"done", "aborted", "exit"}
    /\ run < MaxRuns
    /\ Cardinality(FilesUnder(fs, InputDir)) < MaxFiles
    /\ \E r \in RunsRelPaths, m \in RunsMTimes :
          LET p == InputDir \o r
          IN  /\ p \notin DOMAIN fs
              /\ (WorkingDir \o r) \in DOMAIN fs
              /\ fs' = [ q \in DOMAIN fs \cup {p} |->
                           IF q = p
                             THEN [mtime |-> m, content |-> Append(p, Digit(run))]
                             ELSE fs[q] ]
              /\ dirs' = dirs \cup WithParents(Parent(p))
    /\ UNCHANGED << pc, run, args, fs0, dirs0, start_timestamp, oldfile_names,
                    moved, selected_filenames, password, keyring_calls,
                    engine_locals, deleted, requests, remote, exit_status >>

\* Successive invocations of the program.
NextRuns == Next \/ NextRun \/ FileArrives

\* The input trees the successive-invocation specification starts from: the
\* files of InitialFileSystems that lie on RunsRelPaths and were modified at
\* one of RunsMTimes.
InitRuns ==
    /\ Init
    /\ \A p \in DOMAIN fs :
          relative_to(p, InputDir) \in RunsRelPaths /\ fs[p].mtime \in RunsMTimes

SpecRuns == InitRuns /\ [][NextRuns]_vars

\* ============================================================== properties
Range(seq) == { seq[k] : k \in DOMAIN seq }

Is2xx(status_code) == status_code \in 200..299

\* Positions of the current run's request log holding a request of kind op.
RequestsOf(op) == { k \in DOMAIN requests : requests[k].op = op }

\* The upload request of file f returned a status in 200-299.
UploadReturned2xx(f) ==
    \E k \in RequestsOf("upload") :
        requests[k].file = f /\ Is2xx(requests[k].status)

\* The create-folder request made for file f returned a status outside 200-299.
FolderCreationFailed(f) ==
    \E k \in RequestsOf("create_folder") :
        requests[k].file = f /\ ~ Is2xx(requests[k].status)

\* Folder paths named by a create-folder request of the current run.
RequestedFolders == { requests[k].target : k \in RequestsOf("create_folder") }

CreateRequestsFor(target) ==
    { k \in RequestsOf("create_folder") : requests[k].target = target }

\* The mirrored path of an input file under the working directory.
Mirrored(p) == WorkingDir \o SubSeq(p, Len(InputDir) + 1, Len(p))

\* The age cutoff of the current run.
Cutoff == start_timestamp - args.days * 86400

\* ----------------------------------------------------------------------- C1
\* C1: in a run that reached completion, a file of the working set is gone
\* from the working directory if and only if its upload request returned a
\* status in 200-299 and the delete option is enabled.
C1_DeletedIffUploadedAndDeleteEnabled ==
    pc = "done" =>
        \A f \in Range(selected_filenames) :
            (f \notin DOMAIN fs) <=> (args.delete /\ UploadReturned2xx(f))

\* Completed run with delete enabled in which one file was uploaded and
\* deleted, one is kept after a non-2xx upload.
C1_Witness ==
    /\ pc = "done"
    /\ args.delete
    /\ \E f, g \in Range(selected_filenames) :
          /\ f \notin DOMAIN fs
          /\ UploadReturned2xx(f)
          /\ g \in DOMAIN fs
          /\ \E k \in RequestsOf("upload") :
                requests[k].file = g /\ requests[k].status = 300

\* ----------------------------------------------------------------------- C2
\* C2: when the credential lookup returns nothing and the run aborts, every
\* file the run found is still at its original path and no file is under the
\* working directory.
C2_AbortOnMissingCredentialBeforeStaging ==
    (pc = "aborted" /\ keyring_calls > 0 /\ password = None) =>
        /\ fs = fs0
        /\ FilesUnder(fs, WorkingDir) = {}

\* ----------------------------------------------------------------------- C3
\* C3 as stated: within one run, at most one create-folder request is issued
\* for a folder path, whatever the responses.
C3_AtMostOneCreateRequestPerBucket ==
    \A target \in RequestedFolders : Cardinality(CreateRequestsFor(target)) <= 1

\* C3 amended: within one run, the create-folder requests issued for a folder
\* path are at most one more than those of them that returned a non-2xx
\* status (hence at most one when every response is 2xx).
C3_AtMostOneCreateRequestBeyondFailures ==
    \A target \in RequestedFolders :
        Cardinality(CreateRequestsFor(target)) <=
            1 + Cardinality({ k \in CreateRequestsFor(target) :
                                ~ Is2xx(requests[k].status) })

\* Two files of one bucket were both uploaded after a single create-folder
\* request.
C3_Witness ==
    \E k, l \in RequestsOf("upload") :
        /\ k < l
        /\ requests[k].file # requests[l].file
        /\ requests[k].target = requests[l].target
        /\ Cardinality(CreateRequestsFor(requests[k].target)) = 1

\* ----------------------------------------------------------------------- C4
\* C4: in dry-run mode the file system is as the run found it (the working
\* directory is not created), no credential lookup is made and no network
\* request is issued, from start to exit.
C4_DryRunChangesNothing ==
    (pc # "init" /\ args.dry_run) =>
        /\ fs = fs0
        /\ dirs = dirs0
        /\ keyring_calls = 0
        /\ requests = << >>
        /\ pc \in {"filtered", "exit"}

\* A dry run with two eligible files has exited.
C4_Witness ==
    /\ pc = "exit"
    /\ args.dry_run
    /\ Len(oldfile_names) >= 2
    /\ WorkingDir \notin dirs

\* ----------------------------------------------------------------------- C5
\* C5: the age filter selects exactly the files of the input directory whose
\* modification time is strictly earlier than start_time - days*86400; a file
\* modified exactly at the cutoff is not selected.
C5_AgeFilterStrictlyBeforeCutoff ==
    pc # "init" =>
        /\ Range(oldfile_names) =
              { p \in FilesUnder(fs0, InputDir) : fs0[p].mtime < Cutoff }
        /\ \A p \in FilesUnder(fs0, InputDir) :
              fs0[p].mtime = Cutoff => p \notin Range(oldfile_names)
        /\ Len(oldfile_names) = Cardinality(Range(oldfile_names))

\* The filter kept one file and dropped a file modified exactly at the cutoff.
C5_Witness ==
    /\ pc = "filtered"
    /\ \E p, q \in FilesUnder(fs0, InputDir) :
          /\ fs0[p].mtime = Cutoff
          /\ p \notin Range(oldfile_names)
          /\ fs0[q].mtime = Cutoff - 1
          /\ q \in Range(oldfile_names)

\* ----------------------------------------------------------------------- C6
\* move_files has returned.
StagingComplete ==
    pc = "moving" /\ moved = Len(oldfile_names)

\* C6: when staging completes, every selected file is at its mirrored path
\* under the working directory (with its own content, so distinct files are
\* at distinct paths) and gone from the input directory, and every file that
\* was not selected is still at its original path.
C6_StagingMirrorsSelectedFiles ==
    StagingComplete =>
        /\ \A p \in Range(oldfile_names) :
              /\ Mirrored(p) \in DOMAIN fs
              /\ fs[Mirrored(p)] = fs0[p]
              /\ p \notin DOMAIN fs
        /\ Cardinality({ q \in FilesUnder(fs, WorkingDir) :
                           \E p \in Range(oldfile_names) : fs[q] = fs0[p] })
              = Len(oldfile_names)
        /\ \A p \in FilesUnder(fs0, InputDir) \ Range(oldfile_names) :
              p \in DOMAIN fs /\ fs[p] = fs0[p]

\* Staging completed for two files of the same base name in different
\* directories.
C6_Witness ==
    /\ StagingComplete
    /\ \E p, q \in Range(oldfile_names) :
          p # q /\ Name(p) = Name(q) /\ Parent(p) # Parent(q)

\* ----------------------------------------------------------------------- C7
\* C7: when the credential lookup returned not found, no network request
\* (connect, probe GET, create folder, upload) is issued in the run and no
\* per-file outcome is recorded.
C7_NoNetworkCallWithoutCredential ==
    (keyring_calls > 0 /\ password = None) =>
        /\ requests = << >>
        /\ successful_upload_count = 0
        /\ failed_upload_count = 0
        /\ uploaded_filenames = << >>
        /\ pc = "aborted"

\* The run aborted on a missing credential with files waiting in the working
\* directory.
C7_Witness ==
    /\ pc = "aborted"
    /\ keyring_calls = 1
    /\ password = None
    /\ Len(selected_filenames) >= 1

\* ----------------------------------------------------------------------- C8
\* C8: a create-folder or upload request is preceded in the run by a probe
\* GET that returned a status other than 403; after a probe that returned 403
\* the run is aborted, and no create-folder request, upload request or
\* deletion happens.
C8_ProbeGatesUploads ==
    /\ \A k \in RequestsOf("create_folder") \cup RequestsOf("upload") :
          \E j \in RequestsOf("get") : j < k /\ requests[j].status # 403
    /\ \A j \in RequestsOf("get") :
          requests[j].status = 403 =>
              /\ pc = "aborted"
              /\ RequestsOf("create_folder") = {}
              /\ RequestsOf("upload") = {}
              /\ deleted = 0
              /\ Range(selected_filenames) \subseteq DOMAIN fs

\* The probe returned 403 and the run aborted with files in the working set.
C8_Witness ==
    /\ pc = "aborted"
    /\ Len(selected_filenames) >= 1
    /\ \E j \in RequestsOf("get") : requests[j].status = 403

\* ----------------------------------------------------------------------- C9
\* Working-set files whose processing ended on a failed create-folder request.
FilesSkipped ==
    { f \in Range(selected_filenames) :
        /\ FolderCreationFailed(f)
        /\ ~ \E k \in RequestsOf("upload") : requests[k].file = f }

\* C9: when the engine finishes, successful + failed = size of the working
\* set, the successful count is the length of the uploaded list, the list has
\* no duplicates and holds exactly the files whose upload returned 200-299;
\* every other file (non-2xx upload or failed folder creation) is counted as
\* failed.
C9_CountsAccountForEveryFile ==
    pc = "cleanup" =>
        /\ successful_upload_count + failed_upload_count = Len(selected_filenames)
        /\ successful_upload_count = Len(uploaded_filenames)
        /\ Len(uploaded_filenames) = Cardinality(Range(uploaded_filenames))
        /\ Range(uploaded_filenames) =
              { f \in Range(selected_filenames) : UploadReturned2xx(f) }
        /\ failed_upload_count =
              Cardinality(Range(selected_filenames) \ Range(uploaded_filenames))
        /\ FilesSkipped \cap Range(uploaded_filenames) = {}

\* The engine finished with one file uploaded and one skipped after a failed
\* folder creation.
C9_Witness ==
    /\ pc = "cleanup"
    /\ successful_upload_count = 1
    /\ failed_upload_count = 1
    /\ FilesSkipped # {}

\* ---------------------------------------------------------------------- C10
\* Position of file f in the working set.
IndexOf(f) == CHOOSE k \in DOMAIN selected_filenames : selected_filenames[k] = f

\* C10: every upload request is preceded in the run by a create-folder
\* request for the same folder path that returned 200-299; after a non-2xx
\* create-folder request made for a file there is no upload request for that
\* file, the file is counted as failed and the loop has gone on to the next
\* position of the working set.
C10_UploadOnlyIntoConfirmedFolder ==
    /\ \A k \in RequestsOf("upload") :
          \E j \in RequestsOf("create_folder") :
              /\ j < k
              /\ requests[j].target = requests[k].target
              /\ Is2xx(requests[j].status)
    /\ \A j \in RequestsOf("create_folder") :
          ~ Is2xx(requests[j].status) =>
              /\ ~ \E k \in RequestsOf("upload") :
                      requests[k].file = requests[j].file
              /\ failed_upload_count >=
                    Cardinality({ i \in RequestsOf("create_folder") :
                                    i <= j /\ ~ Is2xx(requests[i].status) })
              /\ (j = Len(requests) =>
                    idx = IndexOf(requests[j].file) + 1)

\* The first file was skipped after create folder returned 199 and the loop
\* went on to upload the second file.
C10_Witness ==
    /\ Len(requests) >= 5
    /\ requests[3].op = "create_folder"
    /\ requests[3].status = 199
    /\ requests[4].op = "create_folder"
    /\ requests[5].op = "upload"
    /\ requests[5].file # requests[3].file

\* ---------------------------------------------------------------------- C11
\* Working-set files whose loop iteration has ended.
FilesReached ==
    { selected_filenames[k] : k \in { n \in DOMAIN selected_filenames : n < idx } }

\* C11: after a create-folder request for a folder path returned non-2xx, the
\* next request of the run for that path (made by the next file of the bucket)
\* is again a create-folder request; after a create-folder request returned
\* 2xx no further create-folder request for that path is issued in the run.
\* Every file whose iteration has ended has issued a request.
C11_OnlyFolderSuccessIsRemembered ==
    /\ \A j \in RequestsOf("create_folder") :
          IF Is2xx(requests[j].status)
            THEN ~ \E k \in RequestsOf("create_folder") :
                      k > j /\ requests[k].target = requests[j].target
            ELSE \A k \in DOMAIN requests :
                    ( /\ k > j
                      /\ requests[k].target = requests[j].target
                      /\ ~ \E m \in DOMAIN requests :
                            /\ j < m
                            /\ m < k
                            /\ requests[m].target = requests[j].target )
                      => /\ requests[k].op = "create_folder"
                         /\ requests[k].file # requests[j].file
    /\ pc \in {"loop", "upload", "cleanup"} =>
          \A f \in FilesReached : \E k \in DOMAIN requests : requests[k].file = f

\* Create folder failed for the first file of a bucket, was issued again for
\* the second file and returned 2xx.
C11_Witness ==
    /\ Len(requests) >= 4
    /\ requests[3].op = "create_folder"
    /\ requests[3].status = 300
    /\ requests[4].op = "create_folder"
    /\ requests[4].target = requests[3].target
    /\ requests[4].file # requests[3].file
    /\ requests[4].status = 200

\* ---------------------------------------------------------------------- C12
\* Files in the order of their first request.
RECURSIVE FilesInRequestOrder(_)
FilesInRequestOrder(n) ==
    IF n = 0 THEN << >>
    ELSE LET before == FilesInRequestOrder(n - 1)
         IN  IF requests[n].op \in {"create_folder", "upload"}
                  /\ requests[n].file \notin Range(before)
               THEN Append(before, requests[n].file)
               ELSE before

\* Every file of the working set was processed once, in discovery order,
\* with at most one create-folder and at most one upload request.
ProcessedOnceInOrder ==
    /\ FilesInRequestOrder(Len(requests)) = selected_filenames
    /\ \A f \in Range(selected_filenames) :
          /\ Cardinality({ k \in RequestsOf("upload") : requests[k].file = f }) <= 1
          /\ Cardinality({ k \in RequestsOf("create_folder") :
                             requests[k].file = f }) <= 1
    /\ successful_upload_count + failed_upload_count = Len(selected_filenames)

\* C12: once the probe has passed, whatever the responses to create folder
\* and upload, the run reaches its completion state having processed every
\* file of the working set exactly once, in discovery order, with at most one
\* upload attempt per file.
C12_PerFileErrorsNeverHaltTheRun ==
    (pc = "loop") ~> (pc = "done" /\ ProcessedOnceInOrder)

\* A run completed although every request of its two files failed.
C12_Witness ==
    /\ pc = "done"
    /\ Len(selected_filenames) = 2
    /\ failed_upload_count = 2
    /\ \E k \in RequestsOf("upload") : ~ Is2xx(requests[k].status)
    /\ \E k \in RequestsOf("create_folder") : ~ Is2xx(requests[k].status)

\* ---------------------------------------------------------------------- C13
\* C13: in every state of a run, every file that was under the input
\* directory when the run started is at its original path or at its mirrored
\* path under the working directory, unless Cleanup has deleted it after its
\* upload returned 2xx.
C13_NoInputFileIsLost ==
    \A p \in FilesUnder(fs0, InputDir) :
        \/ p \in DOMAIN fs /\ fs[p] = fs0[p]
        \/ Mirrored(p) \in DOMAIN fs /\ fs[Mirrored(p)] = fs0[p]
        \/ /\ pc \in {"deleting", "finishing", "done"}
           /\ args.delete
           /\ p \in Range(oldfile_names)
           /\ UploadReturned2xx(Mirrored(p))

\* A later run aborted after it had staged a file onto the path of a file an
\* earlier run left in the working directory.
C13_Witness ==
    /\ run >= 2
    /\ pc = "aborted"
    /\ \E p \in Range(oldfile_names) :
          /\ Mirrored(p) \in DOMAIN fs0
          /\ Mirrored(p) \in DOMAIN fs
          /\ fs[Mirrored(p)] = fs0[p]

\* ---------------------------------------------------------------------- C14
\* C14: a network request is issued only after move_files has moved every
\* selected file; while the loop runs no file of the working set has been
\* deleted; a file of the working set is gone only after every file has its
\* outcome recorded, and no request is issued from then on.
C14_StagingThenEngineThenCleanup ==
    /\ requests # << >> =>
          /\ moved = Len(oldfile_names)
          /\ \A p \in Range(oldfile_names) : p \notin DOMAIN fs
          /\ pc \notin {"init", "filtered", "moving", "exit"}
    /\ pc \in {"keyring", "connect", "probe", "loop", "upload", "cleanup"} =>
          /\ Range(selected_filenames) \subseteq DOMAIN fs
          /\ deleted = 0
    /\ (\E f \in Range(selected_filenames) : f \notin DOMAIN fs) =>
          /\ pc \in {"deleting", "finishing", "done"}
          /\ idx = Len(selected_filenames) + 1
          /\ successful_upload_count + failed_upload_count = Len(selected_filenames)
          /\ \A f \in Range(selected_filenames) :
                \E k \in DOMAIN requests : requests[k].file = f

\* Cleanup has deleted the first of two uploaded files.
C14_Witness ==
    /\ pc = "deleting"
    /\ deleted = 1
    /\ Len(uploaded_filenames) = 2
    /\ Len(oldfile_names) = 2

\* ---------------------------------------------------------------------- C15
\* The run aborted on a missing credential or on a 403 from the probe.
FatalAbort ==
    /\ pc = "aborted"
    /\ \/ password = None
       \/ \E j \in RequestsOf("get") : requests[j].status = 403

\* C15: when a run has aborted after staging, every staged file is in the
\* working directory and not in the input directory, the working directory
\* holds the files the run listed there, and nothing was uploaded or deleted.
C15_AbortLeavesStagedFilesInPlace ==
    pc = "aborted" =>
        /\ FatalAbort
        /\ \A p \in Range(oldfile_names) :
              /\ p \notin DOMAIN fs
              /\ Mirrored(p) \in DOMAIN fs
              /\ fs[Mirrored(p)] = fs0[p]
        /\ FilesUnder(fs, WorkingDir) = Range(selected_filenames)
        /\ FilesUnder(fs, InputDir) = FilesUnder(fs0, InputDir) \ Range(oldfile_names)
        /\ RequestsOf("upload") = {}
        /\ RequestsOf("create_folder") = {}
        /\ uploaded_filenames = << >>
        /\ deleted = 0

\* The probe returned 403 after two files had been staged.
C15_Witness ==
    /\ FatalAbort
    /\ password = Secret
    /\ Len(oldfile_names) = 2
    /\ \A p \in Range(oldfile_names) : Mirrored(p) \in DOMAIN fs

\* ---------------------------------------------------------------------- C16
\* Folder paths for which a create-folder request of the current run returned
\* a status in 200-299.
FoldersConfirmed ==
    { requests[k].target :
        k \in { j \in RequestsOf("create_folder") : Is2xx(requests[j].status) } }

\* C16: in every state of every run created_folders holds exactly the folder
\* paths whose create-folder request returned 200-299 in that run (so it is
\* empty when the engine starts, whatever earlier runs created), and no step
\* of a run removes an element from it.
C16_CreatedFoldersIsTheRunsConfirmedSet ==
    /\ [](created_folders = FoldersConfirmed)
    /\ [][run' = run => created_folders \subseteq created_folders']_vars

\* In a second run, before any upload of that run, create folder was issued
\* again for a folder the first run had already created and uploaded into.
C16_Witness ==
    /\ run = 2
    /\ RequestsOf("upload") = {}
    /\ \E key \in DOMAIN remote : created_folders = { key[1] }

\* ---------------------------------------------------------------------- C17
\* Every request of the run that has a status returned 200-299.
AllRequestsReturned2xx ==
    \A k \in DOMAIN requests :
        requests[k].op # "connect" => Is2xx(requests[k].status)

\* C17: after a completed run with delete enabled in which every request
\* returned 2xx, the remote library holds the content of every file the run
\* deleted locally, and the uploaded files were written to as many distinct
\* remote paths as there are files.
C17_DeletedFilesAreHeldRemotely ==
    (pc = "done" /\ args.delete /\ AllRequestsReturned2xx) =>
        /\ \A p \in Range(oldfile_names) :
              Mirrored(p) \notin DOMAIN fs =>
                  \E key \in DOMAIN remote : remote[key] = fs0[p].content
        /\ Cardinality({ << requests[k].target, Name(requests[k].file) >> :
                           k \in RequestsOf("upload") })
              = Len(uploaded_filenames)

\* ---------------------------------------------------------------------- C18
\* Files the current run found in the working directory when it started.
LeftByEarlierRuns == FilesUnder(fs0, WorkingDir)

\* C18: the working set is every file under the working directory after
\* staging, the files earlier runs left there included; when the engine
\* finishes each of them has been attempted (a create-folder or an upload
\* request names it), whatever its modification time; and a completed run
\* with delete disabled leaves its whole working set in place for the next.
C18_WorkingSetIsTheWholeWorkingDirectory ==
    /\ pc \in {"keyring", "connect", "probe", "loop", "upload", "cleanup"} =>
          /\ Range(selected_filenames) = FilesUnder(fs, WorkingDir)
          /\ LeftByEarlierRuns \subseteq Range(selected_filenames)
    /\ pc = "cleanup" =>
          \A f \in LeftByEarlierRuns :
              \/ FolderCreationFailed(f)
              \/ \E k \in RequestsOf("upload") : requests[k].file = f
    /\ (pc = "done" /\ ~ args.delete) =>
          Range(selected_filenames) \subseteq DOMAIN fs

\* A second run is about to upload a file that the first run uploaded and
\* left in the working directory, although the file is not older than the
\* second run's cutoff.
C18_Witness ==
    /\ run = 2
    /\ pc = "upload"
    /\ RequestsOf("upload") = {}
    /\ LET f == selected_filenames[idx]
       IN  /\ f \in LeftByEarlierRuns
           /\ fs0[f].mtime >= Cutoff
           /\ << relative_target(fs, f), Name(f) >> \in DOMAIN remote
           /\ remote[<< relative_target(fs, f), Name(f) >>] = fs[f].content

\* ---------------------------------------------------------------------- C19
\* The run has ended.
Ended == pc \in {"done", "aborted", "exit"}

\* C19: a run that got past the credential lookup and the probe is never
\* aborted and ends with exit status 0 whatever the failed count; a run ends
\* with a non-zero status exactly when the credential was missing or the
\* probe returned 403.
C19_ExitStatusIgnoresPerFileFailures ==
    /\ pc \in {"loop", "upload", "cleanup", "deleting", "finishing"} =>
          exit_status = -1
    /\ pc = "done" => exit_status = 0
    /\ Ended => (exit_status # 0 <=> FatalAbort)
    /\ ~ Ended => exit_status = -1

\* A run in which every file failed completed with exit status 0.
C19_Witness ==
    /\ pc = "done"
    /\ exit_status = 0
    /\ Len(selected_filenames) = 2
    /\ failed_upload_count = 2
    /\ successful_upload_count = 0

====
